---------------------------- MODULE Spec2Model ----------------------------
(***************************************************************************)
(* Lobby / match session state machine of the tap2rekt websocket server.   *)
(*                                                                         *)
(* Two programs of the repository are modelled over the same state:        *)
(*   "part_000" : src/unnamed/part_000, lines 104-349 (lobby flow that     *)
(*                materializes the match, guarded join_match,              *)
(*                startMatchCountdown helper);                             *)
(*   "server"   : src/server.ts (lobby flow without materialization,       *)
(*                join_match that overwrites the player entry and starts   *)
(*                the timer chain inline).                                 *)
(* The join_lobby, tap and disconnecting handlers are textually the same   *)
(* in both programs and are modelled once.                                 *)
(*                                                                         *)
(* Node runs every handler and every timer callback to completion on one   *)
(* thread, so each handler and each callback is one atomic action.         *)
(***************************************************************************)
EXTENDS Integers, Sequences, FiniteSets, TLC

VARIABLES
    variant,    \* which program runs: "part_000" or "server"
    lobbies,    \* const lobbies: Record<string, Lobby>   (function on the ids present)
    matches,    \* const matches: Record<string, Match>   (function on the ids present)
    timers,     \* pending setTimeout callbacks, in arming order
    connected,  \* which sockets are connected
    rooms,      \* socket.rooms of each socket (insertion-ordered, no duplicates)
    emitted,    \* the io.to(..).emit(..) calls of the last step, in order
    handled,    \* the event or timer callback the last step handled
    sent,       \* how many broadcasts of each phase type each room has been sent
    budget      \* client events still to be received (bounds the exploration)

vars == <<variant, lobbies, matches, timers, connected, rooms, emitted, handled, sent,
         budget>>

-----------------------------------------------------------------------------
(* Bounds of the exploration *)

MaxEvents == 6
MaxEventsTwo == 4
MaxEventsLive == 5
MaxEventsReady == 6

Ids == {"x", "y"}
OneId == {"x"}
Wallets == {"A", "B", "C"}
Roles == {"creator", "opponent"}
Sockets == {"s1"}
Variants == {"part_000", "server"}

\* winner?: string  -- the field is absent (undefined) until it is assigned
NoWinner == "undefined"

-----------------------------------------------------------------------------
(* Program constants *)

SettleDelay == 2000
CountdownDuration == 3000
GameDuration == 30000

Delay(kind) ==
    CASE kind = "settle" -> SettleDelay
      [] kind = "countdown" -> CountdownDuration
      [] kind = "game" -> GameDuration

-----------------------------------------------------------------------------
(* JavaScript objects with string keys: insertion-ordered, one entry per key *)

Keys(ps) == {ps[i].wallet : i \in 1..Len(ps)}

Has(ps, w) == w \in Keys(ps)

IndexOf(ps, w) == CHOOSE i \in 1..Len(ps) : ps[i].wallet = w

Get(ps, w) == ps[IndexOf(ps, w)]

\* obj[w] = entry : an existing key keeps its position, a new key goes last
Put(ps, w, entry) ==
    IF Has(ps, w) THEN [ps EXCEPT ![IndexOf(ps, w)] = entry]
    ELSE Append(ps, entry)

\* Store that writes the value under every key of the registry
StoreUnderEvery(records, id, value) ==
    [k \in (DOMAIN records) \cup {id} |-> value]

\* records[id] = value
Store(records, id, value) ==
    [k \in (DOMAIN records) \cup {id} |-> IF k = id THEN value ELSE records[k]]

\* socket.join(room) : socket.rooms is a Set
JoinRoom(rs, room) ==
    IF \E i \in 1..Len(rs) : rs[i] = room THEN rs ELSE Append(rs, room)

RemoveAt(s, k) == [i \in 1..(Len(s) - 1) |-> IF i < k THEN s[i] ELSE s[i + 1]]

-----------------------------------------------------------------------------
(* Initial state: empty registries, no timers, sockets connected *)

\* what a step handled: the event name (or the timer callback), the socket it
\* came from, and the payload's session id and wallet ("-" where there is none)
Handled(type, s, id, w) == [type |-> type, socket |-> s, id |-> id, wallet |-> w]

\* the broadcasts that are counted per room
Counted == {"match_ready", "countdown_start", "game_start", "game_end"}

RECURSIVE Tally(_, _)
\* the counts sn after the broadcasts es
Tally(sn, es) ==
    IF es = << >> THEN sn
    ELSE Tally(IF Head(es).type \in Counted
               THEN [sn EXCEPT ![Head(es).room][Head(es).type] = @ + 1]
               ELSE sn,
               Tail(es))

\* every step counts what it broadcast
Tallied == sent' = Tally(sent, emitted')

InitCommon ==
    /\ lobbies = << >>
    /\ matches = << >>
    /\ timers = << >>
    /\ connected = [s \in Sockets |-> TRUE]
    /\ rooms = [s \in Sockets |-> << >>]
    /\ emitted = << >>
    /\ handled = Handled("listen", "-", "-", "-")
    /\ sent = [id \in Ids |-> [type \in Counted |-> 0]]

Init ==
    /\ variant = "part_000"
    /\ InitCommon
    /\ budget = MaxEvents


-----------------------------------------------------------------------------
(* Shared handlers: join_lobby, tap, disconnecting, connection *)

NewLobby(id) ==
    [id |-> id, players |-> << >>, state |-> "waiting",
     deposits |-> [creator |-> FALSE, opponent |-> FALSE]]

\* socket.on("join_lobby", ({ lobbyId, wallet, role }) => ...)
JoinLobby(s, id, w, r) ==
    /\ connected[s]
    /\ budget > 0
    /\ LET lobby0 == IF id \in DOMAIN lobbies THEN lobbies[id] ELSE NewLobby(id)
           lobby1 == [lobby0 EXCEPT !.players =
                         Put(@, w, [wallet |-> w, role |-> r, deposited |-> FALSE])]
       IN /\ lobbies' = Store(lobbies, id, lobby1)
          /\ emitted' =
                << [room |-> id, event |-> "lobby_update", type |-> "lobby_update",
                    playerCount |-> Len(lobby1.players), status |-> lobby1.state],
                   [room |-> id, event |-> "player_joined", type |-> "player_joined",
                    playerCount |-> Len(lobby1.players), wallet |-> w] >>
    /\ rooms' = [rooms EXCEPT ![s] = JoinRoom(@, id)]
    /\ budget' = budget - 1
    /\ handled' = Handled("join_lobby", s, id, w)
    /\ UNCHANGED <<variant, matches, timers, connected>>

\* TapAccepted without the phase test: taps counted in any phase
TapAcceptedAnyPhase(id, w) ==
    /\ id \in DOMAIN matches
    /\ Has(matches[id].players, w)

\* if (match && match.state === "active" && match.players[wallet])
TapAccepted(id, w) ==
    /\ id \in DOMAIN matches
    /\ matches[id].state = "active"
    /\ Has(matches[id].players, w)

\* socket.on("tap", ({ matchId, wallet }) => ...)
Tap(s, id, w) ==
    /\ connected[s]
    /\ budget > 0
    /\ IF TapAccepted(id, w)
       THEN LET ps == matches[id].players
                k == IndexOf(ps, w)
                n == ps[k].taps + 1
            IN /\ matches' = [matches EXCEPT ![id].players[k].taps = n]
               /\ emitted' = << [room |-> id, event |-> "update", type |-> "tap_update",
                                 wallet |-> w, taps |-> n] >>
       ELSE /\ matches' = matches
            /\ emitted' = << >>
    /\ budget' = budget - 1
    /\ handled' = Handled("tap", s, id, w)
    /\ UNCHANGED <<variant, lobbies, timers, connected, rooms>>

\* PlayerLeftCount without the - 1
PlayerLeftCountAll(m) == Len(m.players)

\* playerCount: Object.keys(matches[matchId].players).length - 1
PlayerLeftCount(m) == Len(m.players) - 1

RECURSIVE PlayerLeftEmits(_)
\* for (const matchId of socket.rooms) { if (matches[matchId]) emit player_left }
PlayerLeftEmits(rs) ==
    IF rs = << >> THEN << >>
    ELSE (IF Head(rs) \in DOMAIN matches
          THEN << [room |-> Head(rs), event |-> "update", type |-> "player_left",
                   playerCount |-> PlayerLeftCount(matches[Head(rs)])] >>
          ELSE << >>) \o PlayerLeftEmits(Tail(rs))

\* socket.on("disconnecting", () => ...) ; the socket then leaves its rooms
Disconnecting(s) ==
    /\ connected[s]
    /\ budget > 0
    /\ emitted' = PlayerLeftEmits(rooms[s])
    /\ connected' = [connected EXCEPT ![s] = FALSE]
    /\ rooms' = [rooms EXCEPT ![s] = << >>]
    /\ budget' = budget - 1
    /\ handled' = Handled("disconnecting", s, "-", "-")
    /\ UNCHANGED <<variant, lobbies, matches, timers>>

\* io.on("connection", (socket) => ...) : a new connection, in no session room
Connection(s) ==
    /\ ~connected[s]
    /\ connected' = [connected EXCEPT ![s] = TRUE]
    /\ emitted' = << >>
    /\ handled' = Handled("connection", s, "-", "-")
    /\ UNCHANGED <<variant, lobbies, matches, timers, rooms, budget>>

-----------------------------------------------------------------------------
(* part_000: startMatchCountdown and its timer chain *)

NewMatch(id, gameTime) ==
    [id |-> id, players |-> << >>, state |-> "waiting",
     countdownTime |-> 3, gameTime |-> gameTime, winner |-> NoWinner]

NewPlayer(w) == [wallet |-> w, score |-> 0, taps |-> 0]

\* ArmGameTimer that arms nothing: the game never ends
ArmNoTimer(ts, id) == ts

\* setTimeout(() => {...}, gameDuration) armed by the countdown callback
ArmGameTimer(ts, id) == Append(ts, [kind |-> "game", id |-> id])

\* StartMatchCountdown without its countdown_start broadcast
StartSilently(ms, ts, id) ==
    IF id \notin DOMAIN ms
    THEN [matches |-> ms, timers |-> ts, emitted |-> << >>]
    ELSE [matches |-> [ms EXCEPT ![id].state = "countdown"],
          timers |-> Append(ts, [kind |-> "countdown", id |-> id]),
          emitted |-> << >>]

\* function startMatchCountdown(matchId), applied to registry ms and timers ts
StartMatchCountdown(ms, ts, id) ==
    IF id \notin DOMAIN ms
    THEN [matches |-> ms, timers |-> ts, emitted |-> << >>]
    ELSE [matches |-> [ms EXCEPT ![id].state = "countdown"],
          timers |-> Append(ts, [kind |-> "countdown", id |-> id]),
          emitted |-> << [room |-> id, event |-> "update", type |-> "countdown_start",
                          duration |-> CountdownDuration] >>]

\* scores = Object.values(players).map(p => ({ wallet: p.wallet, score: p.taps }))
Scores(ps) == [i \in 1..Len(ps) |-> [wallet |-> ps[i].wallet, score |-> ps[i].taps]]

\* Pick with < for >
PickSmaller(a, b) == IF a.score < b.score THEN a ELSE b

\* Pick with >= for >: the earlier of two equal scores is kept
PickKeepFirst(a, b) == IF a.score >= b.score THEN a ELSE b

\* (a, b) => (a.score > b.score ? a : b)
Pick(a, b) == IF a.score > b.score THEN a ELSE b

RECURSIVE Reduce(_, _)
\* Array.prototype.reduce without an initial value, from accumulator acc over rest
Reduce(acc, rest) ==
    IF rest = << >> THEN acc ELSE Reduce(Pick(acc, Head(rest)), Tail(rest))

\* scores.reduce(...).wallet, for a non-empty score list
Winner(scores) == Reduce(Head(scores), Tail(scores)).wallet

\* A timer may fire only when no timer armed before it is due earlier or at
\* the same time: armed earlier with a delay that is not longer.
Due(k) ==
    /\ k \in 1..Len(timers)
    /\ \A i \in 1..(k - 1) : Delay(timers[i].kind) > Delay(timers[k].kind)

-----------------------------------------------------------------------------
(* deposit_made *)

\* the value of lobby.players[wallet]?.role when the wallet is no member
NoRole == "undefined"

\* LobbyRole with a default role for a wallet that is no member
LobbyRoleOrCreator(lobby, w) ==
    IF Has(lobby.players, w) THEN Get(lobby.players, w).role ELSE "creator"

\* const role = lobby.players[wallet]?.role
LobbyRole(lobby, w) ==
    IF Has(lobby.players, w) THEN Get(lobby.players, w).role ELSE NoRole

\* lobby.players[wallet].deposited = true  (the wallet is a member whenever
\* the handler gets this far; on a missing entry the statement would throw
\* and leave the entries as they are)
SetDeposited(ps, w) ==
    IF Has(ps, w) THEN [ps EXCEPT ![IndexOf(ps, w)].deposited = TRUE] ELSE ps

\* BothDeposited with || for &&
EitherDeposited(lobby) == lobby.deposits.creator \/ lobby.deposits.opponent

\* if (lobby.deposits.creator && lobby.deposits.opponent)
BothDeposited(lobby) == lobby.deposits.creator /\ lobby.deposits.opponent

\* lobby.deposits[role] = true; lobby.players[wallet].deposited = true;
\* and lobby.state = "ready" inside the both-deposited branch
AfterDeposit(lobby, w, role) ==
    LET lobby1 == [lobby EXCEPT !.deposits[role] = TRUE,
                                !.players = SetDeposited(@, w)]
    IN IF BothDeposited(lobby1) THEN [lobby1 EXCEPT !.state = "ready"] ELSE lobby1

DepositConfirmed(id, role) ==
    [room |-> id, event |-> "deposit_confirmed", type |-> "deposit_confirmed",
     role |-> role]

\* CopyRoster that copies no lobby member
CopyNoRoster(mps, lps) == mps

RECURSIVE CopyRoster(_, _)
\* Object.values(lobby.players).forEach(player =>
\*     matches[matchId].players[player.wallet] = { wallet, score: 0, taps: 0 })
CopyRoster(mps, lps) ==
    IF lps = << >> THEN mps
    ELSE CopyRoster(Put(mps, Head(lps).wallet, NewPlayer(Head(lps).wallet)), Tail(lps))

\* the match registry after the both-deposited branch of part_000
Materialize(id, lobby) ==
    LET m0 == IF id \in DOMAIN matches THEN matches[id] ELSE NewMatch(id, 30)
        m1 == [m0 EXCEPT !.players = CopyRoster(@, lobby.players)]
    IN Store(matches, id, [m1 EXCEPT !.state = "waiting"])

\* socket.on("deposit_made", ({ lobbyId, wallet }) => ...) of part_000
DepositMade(s, id, w) ==
    /\ variant = "part_000"
    /\ connected[s]
    /\ budget > 0
    /\ budget' = budget - 1
    /\ handled' = Handled("deposit_made", s, id, w)
    /\ UNCHANGED <<variant, connected, rooms>>
    /\ IF id \notin DOMAIN lobbies
       THEN /\ emitted' = << >>
            /\ UNCHANGED <<lobbies, matches, timers>>
       ELSE LET role == LobbyRole(lobbies[id], w)
                lobby1 == AfterDeposit(lobbies[id], w, role)
            IN IF role = NoRole
               THEN /\ emitted' = << >>
                    /\ UNCHANGED <<lobbies, matches, timers>>
               ELSE /\ lobbies' = [lobbies EXCEPT ![id] = lobby1]
                    /\ IF BothDeposited(lobby1)
                       THEN /\ emitted' =
                                 << DepositConfirmed(id, role),
                                    [room |-> id, event |-> "match_ready",
                                     type |-> "match_ready", matchId |-> id] >>
                            /\ matches' = Materialize(id, lobby1)
                            /\ timers' = Append(timers, [kind |-> "settle", id |-> id])
                       ELSE /\ emitted' = << DepositConfirmed(id, role) >>
                            /\ UNCHANGED <<matches, timers>>

\* socket.on("deposit_made", ({ lobbyId, wallet }) => ...) of server.ts
ServerDepositMade(s, id, w) ==
    /\ variant = "server"
    /\ connected[s]
    /\ budget > 0
    /\ budget' = budget - 1
    /\ handled' = Handled("deposit_made", s, id, w)
    /\ UNCHANGED <<variant, connected, rooms, matches, timers>>
    /\ IF id \notin DOMAIN lobbies
       THEN /\ emitted' = << >>
            /\ UNCHANGED lobbies
       ELSE LET role == LobbyRole(lobbies[id], w)
                lobby1 == AfterDeposit(lobbies[id], w, role)
            IN IF role = NoRole
               THEN /\ emitted' = << >>
                    /\ UNCHANGED lobbies
               ELSE /\ lobbies' = [lobbies EXCEPT ![id] = lobby1]
                    /\ emitted' =
                         IF BothDeposited(lobby1)
                         THEN << DepositConfirmed(id, role),
                                 [room |-> id, event |-> "match_ready",
                                  type |-> "match_ready"] >>
                         ELSE << DepositConfirmed(id, role) >>

-----------------------------------------------------------------------------
(* join_match *)

PlayerJoined(id, n) ==
    [room |-> id, event |-> "update", type |-> "player_joined", playerCount |-> n]

\* if (!matches[matchId].players[wallet]) matches[matchId].players[wallet] = {...}
AddPlayer(ps, w) == IF Has(ps, w) THEN ps ELSE Append(ps, NewPlayer(w))

\* socket.on("join_match", ({ matchId, wallet }) => ...) of part_000
JoinMatch(s, id, w) ==
    /\ variant = "part_000"
    /\ connected[s]
    /\ budget > 0
    /\ LET m0 == IF id \in DOMAIN matches THEN matches[id] ELSE NewMatch(id, 30)
           m1 == [m0 EXCEPT !.players = AddPlayer(@, w)]
           ms1 == Store(matches, id, m1)
           playerCount == Len(m1.players)
           started == StartMatchCountdown(ms1, timers, id)
       IN IF playerCount >= 2 /\ m1.state = "waiting"
          THEN /\ matches' = started.matches
               /\ timers' = started.timers
               /\ emitted' = << PlayerJoined(id, playerCount) >> \o started.emitted
          ELSE /\ matches' = ms1
               /\ timers' = timers
               /\ emitted' = << PlayerJoined(id, playerCount) >>
    /\ rooms' = [rooms EXCEPT ![s] = JoinRoom(@, id)]
    /\ budget' = budget - 1
    /\ handled' = Handled("join_match", s, id, w)
    /\ UNCHANGED <<variant, lobbies, connected>>

\* socket.on("join_match", ({ matchId, wallet }) => ...) of server.ts
ServerJoinMatch(s, id, w) ==
    /\ variant = "server"
    /\ connected[s]
    /\ budget > 0
    /\ LET m0 == IF id \in DOMAIN matches THEN matches[id] ELSE NewMatch(id, 10)
           m1 == [m0 EXCEPT !.players = Put(@, w, NewPlayer(w))]
           playerCount == Len(m1.players)
       IN IF playerCount = 2
          THEN /\ matches' = Store(matches, id, [m1 EXCEPT !.state = "countdown"])
               /\ timers' = Append(timers, [kind |-> "countdown", id |-> id])
               /\ emitted' =
                    << PlayerJoined(id, playerCount),
                       [room |-> id, event |-> "update", type |-> "countdown_start",
                        duration |-> CountdownDuration] >>
          ELSE /\ matches' = Store(matches, id, m1)
               /\ timers' = timers
               /\ emitted' = << PlayerJoined(id, playerCount) >>
    /\ rooms' = [rooms EXCEPT ![s] = JoinRoom(@, id)]
    /\ budget' = budget - 1
    /\ handled' = Handled("join_match", s, id, w)
    /\ UNCHANGED <<variant, lobbies, connected>>

-----------------------------------------------------------------------------
(* Timer callbacks *)

GameEnd(id, scores, winner) ==
    [room |-> id, event |-> "update", type |-> "game_end",
     scores |-> scores, winner |-> winner]

GameStart(id) ==
    [room |-> id, event |-> "update", type |-> "game_start", duration |-> GameDuration]

\* setTimeout(() => { if (matches[matchId] && matches[matchId].state === "waiting")
\*                        startMatchCountdown(matchId); }, 2000)
SettleTimeout(k) ==
    /\ variant = "part_000"
    /\ Due(k)
    /\ timers[k].kind = "settle"
    /\ LET id == timers[k].id
           rest == RemoveAt(timers, k)
           started == StartMatchCountdown(matches, rest, id)
       IN IF id \in DOMAIN matches /\ matches[id].state = "waiting"
          THEN /\ matches' = started.matches
               /\ timers' = started.timers
               /\ emitted' = started.emitted
          ELSE /\ matches' = matches
               /\ timers' = rest
               /\ emitted' = << >>
    /\ handled' = Handled("settle_timeout", "-", timers[k].id, "-")
    /\ UNCHANGED <<variant, lobbies, connected, rooms, budget>>

\* the countdownDuration callback of startMatchCountdown
CountdownTimeout(k) ==
    /\ variant = "part_000"
    /\ Due(k)
    /\ timers[k].kind = "countdown"
    /\ LET id == timers[k].id
           rest == RemoveAt(timers, k)
       IN IF id \notin DOMAIN matches
          THEN /\ matches' = matches
               /\ timers' = rest
               /\ emitted' = << >>
          ELSE /\ matches' = [matches EXCEPT ![id].state = "active"]
               /\ timers' = ArmGameTimer(rest, id)
               /\ emitted' = << GameStart(id) >>
    /\ handled' = Handled("countdown_timeout", "-", timers[k].id, "-")
    /\ UNCHANGED <<variant, lobbies, connected, rooms, budget>>

\* the gameDuration callback of startMatchCountdown.  On an empty roster
\* scores.reduce throws after the state is written: nothing is stored or sent.
GameTimeout(k) ==
    /\ variant = "part_000"
    /\ Due(k)
    /\ timers[k].kind = "game"
    /\ LET id == timers[k].id
           scores == Scores(matches[id].players)
       IN IF id \notin DOMAIN matches
          THEN /\ matches' = matches
               /\ emitted' = << >>
          ELSE IF scores = << >>
          THEN /\ matches' = [matches EXCEPT ![id].state = "finished"]
               /\ emitted' = << >>
          ELSE /\ matches' = [matches EXCEPT ![id].state = "finished",
                                             ![id].winner = Winner(scores)]
               /\ emitted' = << GameEnd(id, scores, Winner(scores)) >>
    /\ timers' = RemoveAt(timers, k)
    /\ handled' = Handled("game_timeout", "-", timers[k].id, "-")
    /\ UNCHANGED <<variant, lobbies, connected, rooms, budget>>

\* the countdownDuration callback inlined in join_match of server.ts
ServerCountdownTimeout(k) ==
    /\ variant = "server"
    /\ Due(k)
    /\ timers[k].kind = "countdown"
    /\ LET id == timers[k].id
       IN /\ matches' = [matches EXCEPT ![id].state = "active"]
          /\ timers' = ArmGameTimer(RemoveAt(timers, k), id)
          /\ emitted' = << GameStart(id) >>
    /\ handled' = Handled("countdown_timeout", "-", timers[k].id, "-")
    /\ UNCHANGED <<variant, lobbies, connected, rooms, budget>>

\* the gameDuration callback inlined in join_match of server.ts: the winner
\* is sent, not stored
ServerGameTimeout(k) ==
    /\ variant = "server"
    /\ Due(k)
    /\ timers[k].kind = "game"
    /\ LET id == timers[k].id
           scores == Scores(matches[id].players)
       IN /\ matches' = [matches EXCEPT ![id].state = "finished"]
          /\ emitted' = IF scores = << >> THEN << >>
                        ELSE << GameEnd(id, scores, Winner(scores)) >>
    /\ timers' = RemoveAt(timers, k)
    /\ handled' = Handled("game_timeout", "-", timers[k].id, "-")
    /\ UNCHANGED <<variant, lobbies, connected, rooms, budget>>

-----------------------------------------------------------------------------
(* Specifications *)

TimerFires ==
    /\ \E k \in 1..Len(timers) :
          SettleTimeout(k) \/ CountdownTimeout(k) \/ GameTimeout(k)
    /\ Tallied

\* the client events and timer callbacks of part_000 on the session ids I
Step(I) ==
    \/ (\E s \in Sockets, id \in I, w \in Wallets, r \in Roles : JoinLobby(s, id, w, r)) /\ Tallied
    \/ (\E s \in Sockets, id \in I, w \in Wallets : DepositMade(s, id, w)) /\ Tallied
    \/ (\E s \in Sockets, id \in I, w \in Wallets : JoinMatch(s, id, w)) /\ Tallied
    \/ (\E s \in Sockets, id \in I, w \in Wallets : Tap(s, id, w)) /\ Tallied
    \/ (\E s \in Sockets : Disconnecting(s)) /\ Tallied
    \/ (\E s \in Sockets : Connection(s)) /\ Tallied
    \/ (\E k \in 1..Len(timers) : SettleTimeout(k)) /\ Tallied
    \/ (\E k \in 1..Len(timers) : CountdownTimeout(k)) /\ Tallied
    \/ (\E k \in 1..Len(timers) : GameTimeout(k)) /\ Tallied

\* the handlers and callbacks that differ in server.ts
ServerStep(I) ==
    \/ (\E s \in Sockets, id \in I, w \in Wallets : ServerDepositMade(s, id, w)) /\ Tallied
    \/ (\E s \in Sockets, id \in I, w \in Wallets : ServerJoinMatch(s, id, w)) /\ Tallied
    \/ (\E k \in 1..Len(timers) : ServerCountdownTimeout(k)) /\ Tallied
    \/ (\E k \in 1..Len(timers) : ServerGameTimeout(k)) /\ Tallied

\* part_000, one session
Next == Step(OneId)

Spec == Init /\ [][Next]_vars

\* part_000 and server.ts, the program chosen at start, one session
InitAll ==
    /\ variant \in Variants
    /\ InitCommon
    /\ budget = MaxEvents

NextAll == Step(OneId) \/ ServerStep(OneId)

SpecAll == InitAll /\ [][NextAll]_vars

\* part_000, two sessions side by side
InitTwo ==
    /\ variant = "part_000"
    /\ InitCommon
    /\ budget = MaxEventsTwo

NextTwo == Step(Ids)

SpecTwo == InitTwo /\ [][NextTwo]_vars

\* part_000 with every armed timer eventually firing, as Node's timers do
InitLive ==
    /\ variant = "part_000"
    /\ InitCommon
    /\ budget = MaxEventsLive

SpecLive == InitLive /\ [][Next]_vars /\ WF_vars(TimerFires)

\* the same, with room for a direct join_match pair before the lobby flow
InitReady ==
    /\ variant = "part_000"
    /\ InitCommon
    /\ budget = MaxEventsReady

SpecReady == InitReady /\ [][Next]_vars /\ WF_vars(TimerFires)

\* part_000, one session, with room for two direct joins around a full lobby
MaxEventsRace == 7

InitRace ==
    /\ InitCommon
    /\ variant = "part_000"
    /\ budget = MaxEventsRace

SpecRace == InitRace /\ [][Next]_vars

-----------------------------------------------------------------------------
(* Vocabulary of the properties *)

PhaseRank(st) ==
    CASE st = "waiting" -> 0
      [] st = "countdown" -> 1
      [] st = "active" -> 2
      [] st = "finished" -> 3

ClientEvents == {"join_lobby", "deposit_made", "join_match", "tap", "disconnecting"}

\* the broadcasts of the last step to room id with the given type
Sent(id, type) ==
    {i \in 1..Len(emitted) : emitted[i].room = id /\ emitted[i].type = type}

\* taps of wallet w in roster ps
TapsOf(ps, w) == Get(ps, w).taps

-----------------------------------------------------------------------------
(* C1  Phase monotonicity *)

\* C1: no step moves a match's state to an earlier phase: across every step
\* each existing match is still there and the rank of its state in
\* waiting < countdown < active < finished does not decrease.
PhaseMonotonicity ==
    [][\A id \in DOMAIN matches :
          /\ id \in DOMAIN matches'
          /\ PhaseRank(matches'[id].state) >= PhaseRank(matches[id].state)]_vars

-----------------------------------------------------------------------------
(* C2  Tap gating *)

\* C2: a handled tap(matchId, wallet) adds exactly 1 to that wallet's taps,
\* changes nothing else of any match and emits exactly one tap_update with the
\* new count, if and only if before the step the match exists, is active and
\* has the wallet in its roster; otherwise no match changes and nothing is
\* emitted.
TapGating ==
    [][handled'.type = "tap" =>
          LET id == handled'.id
              w == handled'.wallet
          IN IF /\ id \in DOMAIN matches
                /\ matches[id].state = "active"
                /\ w \in Keys(matches[id].players)
             THEN /\ DOMAIN matches' = DOMAIN matches
                  /\ \A j \in DOMAIN matches : j # id => matches'[j] = matches[j]
                  /\ Len(matches'[id].players) = Len(matches[id].players)
                  /\ \A i \in 1..Len(matches[id].players) :
                        LET p == matches[id].players[i]
                            q == matches'[id].players[i]
                        IN /\ q.wallet = p.wallet
                           /\ q.score = p.score
                           /\ q.taps = (IF p.wallet = w THEN p.taps + 1 ELSE p.taps)
                  /\ matches'[id].state = "active"
                  /\ matches'[id].winner = matches[id].winner
                  /\ emitted' = << [room |-> id, event |-> "update",
                                    type |-> "tap_update", wallet |-> w,
                                    taps |-> TapsOf(matches[id].players, w) + 1] >>
             ELSE /\ matches' = matches
                  /\ emitted' = << >>]_vars

\* an accepted tap has just been handled: the second tap of a wallet
TapGatingWitness ==
    /\ handled.type = "tap"
    /\ \E i \in 1..Len(emitted) : emitted[i].type = "tap_update" /\ emitted[i].taps = 2

-----------------------------------------------------------------------------
(* C3  Ready invariant *)

\* C3: in every reachable state a lobby's state is ready if and only if
\* deposits.creator and deposits.opponent are both true.
ReadyInvariant ==
    \A id \in DOMAIN lobbies :
        (lobbies[id].state = "ready")
            <=> (lobbies[id].deposits.creator /\ lobbies[id].deposits.opponent)

\* a ready lobby in which a wallet has re-joined since (its deposited flag is
\* false again) and another lobby state with exactly one flag set
ReadyInvariantWitness ==
    \E id \in DOMAIN lobbies :
        /\ lobbies[id].state = "ready"
        /\ Len(lobbies[id].players) = 2
        /\ \E i \in 1..Len(lobbies[id].players) : ~lobbies[id].players[i].deposited

-----------------------------------------------------------------------------
(* C4  Winner written once *)

\* C4: a match's winner is assigned only in the step that moves the match to
\* finished, and once it is assigned no later step changes it or broadcasts
\* another game_end for that match.
WinnerWrittenOnce ==
    [][\A id \in DOMAIN matches :
          /\ id \in DOMAIN matches'
          /\ (matches[id].winner = NoWinner /\ matches'[id].winner # NoWinner)
                => (matches[id].state # "finished" /\ matches'[id].state = "finished")
          /\ matches[id].winner # NoWinner
                => /\ matches'[id].winner = matches[id].winner
                   /\ Sent(id, "game_end")' = {}]_vars

-----------------------------------------------------------------------------
(* C5  Taps are mutable only while active *)

\* C5: in every step in which the taps of a wallet already in a match roster
\* changes (or the wallet leaves the roster), the match was active before the
\* step.
TapsOnlyWhileActive ==
    [][\A id \in DOMAIN matches :
          \A w \in Keys(matches[id].players) :
             (\/ id \notin DOMAIN matches'
              \/ w \notin Keys(matches'[id].players)
              \/ TapsOf(matches'[id].players, w) # TapsOf(matches[id].players, w))
                => matches[id].state = "active"]_vars

-----------------------------------------------------------------------------
(* C6  Winner determinism *)

\* C6: whenever a game_end has just been broadcast for a match (the step that
\* moved it to finished) and the taps of its roster are pairwise distinct,
\* the winner stored on the match and the winner carried by game_end are the
\* wallet whose taps is the maximum, and the scores carried are the roster's
\* taps in roster order.
WinnerDeterminism ==
    \A e \in 1..Len(emitted) :
        emitted[e].type = "game_end" =>
            LET id == emitted[e].room
                ps == matches[id].players
            IN /\ matches[id].state = "finished"
               /\ Len(ps) >= 1
               /\ Len(emitted[e].scores) = Len(ps)
               /\ \A i \in 1..Len(ps) :
                     emitted[e].scores[i] = [wallet |-> ps[i].wallet, score |-> ps[i].taps]
               /\ (\A i, j \in 1..Len(ps) : i # j => ps[i].taps # ps[j].taps)
                     => /\ matches[id].winner = emitted[e].winner
                        /\ \E i \in 1..Len(ps) :
                              /\ ps[i].wallet = emitted[e].winner
                              /\ \A j \in 1..Len(ps) : ps[j].taps <= ps[i].taps

\* a finished three-player match with pairwise distinct taps whose winner is
\* the second wallet of the roster
WinnerDeterminismWitness ==
    \E e \in 1..Len(emitted) :
        /\ emitted[e].type = "game_end"
        /\ LET ps == matches[emitted[e].room].players
           IN /\ Len(ps) = 3
              /\ \A i, j \in 1..3 : i # j => ps[i].taps # ps[j].taps
              /\ emitted[e].winner = ps[2].wallet

-----------------------------------------------------------------------------
(* C7  Role-gated deposit *)

\* C7: a handled deposit_made(lobbyId, wallet) for a lobby that does not
\* exist, or for a wallet that is no member of that lobby, leaves every lobby,
\* every match and the pending timers unchanged and emits nothing.
RoleGatedDeposit ==
    [][(/\ handled'.type = "deposit_made"
        /\ \/ handled'.id \notin DOMAIN lobbies
           \/ handled'.wallet \notin Keys(lobbies[handled'.id].players))
          => /\ lobbies' = lobbies
             /\ matches' = matches
             /\ timers' = timers
             /\ emitted' = << >>]_vars

\* a deposit_made from a non-member has just been handled in a lobby whose
\* other role has deposited already
RoleGatedDepositWitness ==
    /\ handled.type = "deposit_made"
    /\ handled.id \in DOMAIN lobbies
    /\ handled.wallet \notin Keys(lobbies[handled.id].players)
    /\ lobbies[handled.id].deposits.opponent
    /\ ~lobbies[handled.id].deposits.creator

-----------------------------------------------------------------------------
(* C8  Disconnect is non-destructive *)

\* C8: handling a socket's disconnecting event leaves every lobby, every match
\* and the pending timers unchanged; it emits exactly one player_left, with
\* playerCount = roster size - 1, for each room of the socket that has a
\* match, and nothing else.
DisconnectNonDestructive ==
    [][handled'.type = "disconnecting" =>
          LET rs == rooms[handled'.socket]
              subscribed == {rs[i] : i \in 1..Len(rs)} \cap DOMAIN matches
          IN /\ lobbies' = lobbies
             /\ matches' = matches
             /\ timers' = timers
             /\ Len(emitted') = Cardinality(subscribed)
             /\ \A id \in subscribed :
                   \E i \in 1..Len(emitted') :
                      emitted'[i] = [room |-> id, event |-> "update",
                                     type |-> "player_left",
                                     playerCount |-> Len(matches[id].players) - 1]]_vars

\* a socket subscribed to two matches of different sizes has just disconnected
DisconnectNonDestructiveWitness ==
    /\ handled.type = "disconnecting"
    /\ Len(emitted) = 2
    /\ emitted[1].playerCount # emitted[2].playerCount

-----------------------------------------------------------------------------
(* C9  One player per role *)

\* C9: in every reachable lobby state at most one player entry has role
\* creator and at most one has role opponent.
OnePlayerPerRole ==
    \A id \in DOMAIN lobbies :
        \A r \in Roles :
            Cardinality({i \in 1..Len(lobbies[id].players) :
                            lobbies[id].players[i].role = r}) <= 1

-----------------------------------------------------------------------------
(* C10  Run to completion *)

IsPrefix(a, b) == Len(a) <= Len(b) /\ \A i \in 1..Len(a) : b[i] = a[i]

InPhase(id, st) == id \in DOMAIN matches /\ matches[id].state = st

\* C10: with every armed timer eventually firing, a match in countdown
\* eventually becomes active and an active match eventually becomes finished
\* in a step that broadcasts game_end, whatever client events interleave; a
\* client event removes no pending timer, and a timer callback removes only
\* the timer that fired.
RunToCompletion ==
    /\ \A id \in Ids : InPhase(id, "countdown") ~> InPhase(id, "active")
    /\ \A id \in Ids :
          InPhase(id, "active")
             ~> (InPhase(id, "finished") /\ Sent(id, "game_end") # {})
    /\ [][IF handled'.type \in ClientEvents \cup {"connection"}
          THEN IsPrefix(timers, timers')
          ELSE \E k \in 1..Len(timers) :
                  /\ timers[k].id = handled'.id
                  /\ IsPrefix(RemoveAt(timers, k), timers')]_vars

\* a match has just finished with game_end, won by a wallet that tapped,
\* after the only socket disconnected
RunToCompletionWitness ==
    \E id \in DOMAIN matches :
        /\ matches[id].state = "finished"
        /\ \E e \in Sent(id, "game_end") :
              /\ emitted[e].winner = matches[id].winner
              /\ TapsOf(matches[id].players, matches[id].winner) >= 1
        /\ \A s \in Sockets : ~connected[s]

-----------------------------------------------------------------------------
(* C11  Ready leads to countdown *)

LobbyReady(id) == id \in DOMAIN lobbies /\ lobbies[id].state = "ready"

\* C11: the deposit_made that leaves both deposit flags of a lobby set emits
\* deposit_confirmed for the depositor's role followed by match_ready with
\* matchId = lobbyId; and, with every armed timer eventually firing, if the
\* lobby ever becomes ready then at some point from then on the match of that
\* id is in countdown.
ReadyLeadsToCountdown ==
    /\ [][(/\ handled'.type = "deposit_made"
           /\ handled'.id \in DOMAIN lobbies
           /\ handled'.wallet \in Keys(lobbies[handled'.id].players)
           /\ lobbies'[handled'.id].state = "ready")
             => /\ Len(emitted') = 2
                /\ emitted'[1].type = "deposit_confirmed"
                /\ emitted'[1].role = LobbyRole(lobbies[handled'.id], handled'.wallet)
                /\ emitted'[2].type = "match_ready"
                /\ emitted'[2].matchId = handled'.id]_vars
    /\ \A id \in Ids :
          <>LobbyReady(id) => <>(LobbyReady(id) /\ InPhase(id, "countdown"))

-----------------------------------------------------------------------------
(* C12  Countdown precondition *)

\* C12: every step that moves a match from waiting to countdown is a
\* join_match or a settle-delay callback for that match, and after it the
\* match roster holds at least 2 players.
CountdownPrecondition ==
    [][\A id \in DOMAIN matches :
          (/\ matches[id].state = "waiting"
           /\ id \in DOMAIN matches'
           /\ matches'[id].state = "countdown")
             => /\ handled'.type \in {"join_match", "settle_timeout"}
                /\ handled'.id = id
                /\ Len(matches'[id].players) >= 2]_vars

-----------------------------------------------------------------------------
(* C13  Tie-break *)

\* the positions of roster ps that hold the maximum taps
MaxTapped(ps) == {i \in 1..Len(ps) : \A j \in 1..Len(ps) : ps[j].taps <= ps[i].taps}

\* the least and the greatest member of a non-empty set of positions
First(S) == CHOOSE i \in S : \A j \in S : i <= j
Last(S) == CHOOSE i \in S : \A j \in S : j <= i

\* C13 as stated: whenever a game_end has just been broadcast, its winner (and
\* the winner stored) is the first, in roster order, of the players that hold
\* the maximum taps.
TieBreakFirst ==
    \A e \in 1..Len(emitted) :
        emitted[e].type = "game_end" =>
            LET ps == matches[emitted[e].room].players
            IN /\ emitted[e].winner = ps[First(MaxTapped(ps))].wallet
               /\ matches[emitted[e].room].winner = emitted[e].winner

\* C13 as amended: whenever a game_end has just been broadcast, its winner
\* (and the winner stored) is the last, in roster order, of the players that
\* hold the maximum taps.
TieBreakLast ==
    \A e \in 1..Len(emitted) :
        emitted[e].type = "game_end" =>
            LET ps == matches[emitted[e].room].players
            IN /\ emitted[e].winner = ps[Last(MaxTapped(ps))].wallet
               /\ matches[emitted[e].room].winner = emitted[e].winner

\* a game has just ended with the first and the third of three players tied
\* at a maximum above zero, and the third has won
TieBreakWitness ==
    \E e \in 1..Len(emitted) :
        /\ emitted[e].type = "game_end"
        /\ LET ps == matches[emitted[e].room].players
           IN /\ Len(ps) = 3
              /\ MaxTapped(ps) = {1, 3}
              /\ ps[1].taps >= 1
              /\ emitted[e].winner = ps[3].wallet

-----------------------------------------------------------------------------
(* C14  Idempotent re-join *)

\* C14: a handled join_match(matchId, wallet) for a wallet already in the
\* roster leaves the roster's key set and that wallet's taps and score
\* unchanged, in every phase; and when that wallet is the only one in the
\* roster the match state stays as it is and no timer is armed.
IdempotentRejoin ==
    [][(/\ handled'.type = "join_match"
        /\ handled'.id \in DOMAIN matches
        /\ handled'.wallet \in Keys(matches[handled'.id].players))
          => LET id == handled'.id
                 w == handled'.wallet
                 ps == matches[id].players
                 qs == matches'[id].players
             IN /\ Keys(qs) = Keys(ps)
                /\ Len(qs) = Len(ps)
                /\ Get(qs, w).taps = Get(ps, w).taps
                /\ Get(qs, w).score = Get(ps, w).score
                /\ Len(ps) = 1 => /\ matches'[id].state = matches[id].state
                                  /\ timers' = timers
                                  /\ \A i \in 1..Len(emitted') :
                                        emitted'[i].type # "countdown_start"]_vars

\* a settle callback that finds its match out of "waiting" does nothing
SettleGuardNoOp ==
    [][(/\ handled'.type = "settle_timeout"
        /\ handled'.id \in DOMAIN matches
        /\ matches[handled'.id].state # "waiting")
          => /\ matches' = matches
             /\ lobbies' = lobbies
             /\ emitted' = << >>
             /\ sent' = sent
             /\ Len(timers') = Len(timers) - 1
             /\ \A k \in 1..Len(timers') : \E j \in 1..Len(timers) : timers'[k] = timers[j]]_vars

\* C15: when the settle callback of the deposit that made the lobby ready fires
\* after the match has left "waiting", it changes no match, arms no timer and
\* broadcasts nothing, and the match has had only one countdown started
SettleGuard ==
    [][(/\ handled'.type = "settle_timeout"
        /\ handled'.id \in DOMAIN matches
        /\ matches[handled'.id].state # "waiting"
        /\ sent[handled'.id]["match_ready"] = 1)
          => /\ matches' = matches
             /\ emitted' = << >>
             /\ Len(timers') = Len(timers) - 1
             /\ sent'[handled'.id]["countdown_start"] <= 1]_vars

-----------------------------------------------------------------------------
(* C16  Non-empty roster at game end *)

\* C16: whenever the game-duration callback of an existing match fires, the
\* roster of the match holds at least one player, so the reduce has an element
\* to start from: the callback broadcasts game_end with a winner of the roster.
NonEmptyRosterAtGameEnd ==
    [][(/\ handled'.type = "game_timeout"
        /\ handled'.id \in DOMAIN matches)
          => /\ Len(matches[handled'.id].players) >= 1
             /\ Len(emitted') = 1
             /\ emitted'[1].type = "game_end"
             /\ emitted'[1].winner \in Keys(matches[handled'.id].players)
             /\ Len(emitted'[1].scores) = Len(matches[handled'.id].players)]_vars

\* the game-duration callback has just computed the winner of a match whose
\* roster is the one wallet that a ready lobby copied into it
NonEmptyRosterWitness ==
    /\ handled.type = "game_timeout"
    /\ handled.id \in DOMAIN matches
    /\ handled.id \in DOMAIN lobbies
    /\ LobbyReady(handled.id)
    /\ Len(matches[handled.id].players) = 1
    /\ Len(emitted) = 1
    /\ emitted[1].type = "game_end"
    /\ emitted[1].winner = matches[handled.id].players[1].wallet

-----------------------------------------------------------------------------
(* C17  Broadcast ordering per match *)

\* C17: for every match id, at every point the room has been sent no more
\* game_end than game_start broadcasts and no more game_start than
\* countdown_start broadcasts, and a step that sends game_start (game_end) is
\* taken only after a countdown_start (game_start) for the same id was sent.
BroadcastOrdering ==
    /\ \A id \in Ids :
          /\ sent[id]["game_end"] <= sent[id]["game_start"]
          /\ sent[id]["game_start"] <= sent[id]["countdown_start"]
    /\ \A e \in 1..Len(emitted) :
          /\ emitted[e].type = "game_start"
                => sent[emitted[e].room]["countdown_start"] >= 1
          /\ emitted[e].type = "game_end"
                => sent[emitted[e].room]["game_start"] >= 1

\* a game_end has just been sent to a room that has been sent two
\* countdown_start and two game_start broadcasts
BroadcastOrderingWitness ==
    \E id \in Ids :
        /\ Sent(id, "game_end") # {}
        /\ sent[id]["countdown_start"] = 2
        /\ sent[id]["game_start"] = 2
        /\ sent[id]["game_end"] = 1

-----------------------------------------------------------------------------
(* C18  Session isolation *)

\* C18: a step that handles an event or a timer callback for session id X
\* leaves the lobby and the match under every other id Y as they were: neither
\* created, nor removed, nor changed; nor does it arm or cancel a timer of Y or
\* count a phase broadcast to Y.
SessionIsolation ==
    [][\A y \in Ids :
          y # handled'.id
            => /\ (y \in DOMAIN lobbies') = (y \in DOMAIN lobbies)
               /\ y \in DOMAIN lobbies => lobbies'[y] = lobbies[y]
               /\ (y \in DOMAIN matches') = (y \in DOMAIN matches)
               /\ y \in DOMAIN matches => matches'[y] = matches[y]
               /\ Cardinality({k \in 1..Len(timers') : timers'[k].id = y})
                     = Cardinality({k \in 1..Len(timers) : timers[k].id = y})
               /\ sent'[y] = sent[y]]_vars

\* a tap for session x has just been counted while session y has a match,
\* still waiting, whose roster holds the same wallet with no taps
SessionIsolationWitness ==
    /\ handled.type = "tap"
    /\ handled.id = "x"
    /\ "x" \in DOMAIN matches
    /\ "y" \in DOMAIN matches
    /\ Has(matches["x"].players, handled.wallet)
    /\ Get(matches["x"].players, handled.wallet).taps = 1
    /\ Has(matches["y"].players, handled.wallet)
    /\ Get(matches["y"].players, handled.wallet).taps = 0
    /\ matches["y"].state = "waiting"

-----------------------------------------------------------------------------
(* C19  Ready requires two distinct depositors *)

\* C19: a lobby is ready only if two distinct wallets deposited, one per role.
\* Only members deposit and members are never removed, so a ready lobby has at
\* least two member wallets; and no deposit of the only member of a lobby
\* makes the lobby ready.
TwoDistinctDepositors ==
    /\ \A id \in DOMAIN lobbies :
          lobbies[id].state = "ready" => Cardinality(Keys(lobbies[id].players)) >= 2
    /\ (/\ handled.type = "deposit_made"
        /\ handled.id \in DOMAIN lobbies
        /\ Keys(lobbies[handled.id].players) = {handled.wallet})
          => lobbies[handled.id].state # "ready"

-----------------------------------------------------------------------------
(* C20  Two-player bound *)

\* C20: the roster of a match never holds more than two wallets, and a
\* join_match of a wallet that is no member of a roster of two adds no player
\* to it, in whatever phase the match is.
TwoPlayerBound ==
    [][/\ \A id \in DOMAIN matches' : Cardinality(Keys(matches'[id].players)) <= 2
       /\ (/\ handled'.type = "join_match"
           /\ handled'.id \in DOMAIN matches
           /\ Cardinality(Keys(matches[handled'.id].players)) = 2)
             => Keys(matches'[handled'.id].players) = Keys(matches[handled'.id].players)]_vars

=============================================================================
